---- MODULE Spec2Model ----
(***************************************************************************)
(* A model of the tgi_chat session core: ChatState (chat_state.py), the    *)
(* history store (history_manager.py), the retrying streaming generator    *)
(* inference (chat_state.py) and the chat handlers user / bot / stop of    *)
(* create_demo (ui.py).                                                    *)
(*                                                                         *)
(* Storage is modelled as a directory of names pointing at inodes, so that *)
(* open(.., "w"), write, os.replace and os.remove behave as they do on a   *)
(* POSIX file system.  Text is modelled as a sequence of delta tokens.     *)
(***************************************************************************)
EXTENDS Integers, Sequences, FiniteSets, TLC

VARIABLES
    now,                \* time.time() / datetime.now(), in seconds
    is_stopped,         \* ChatState.is_stopped
    current_chat_id,    \* ChatState.current_chat_id
    last_save_time,     \* ChatState.last_save_time
    pending_save,       \* ChatState.pending_save
    last_save_attempt,  \* ChatState.last_save_attempt
    names,              \* HISTORY_DIR: file name -> inode
    data,               \* inode -> content (a sequence of written chunks)
    sv,                 \* per thread: position inside save_chat_history
    crashed,            \* the saves the last crash interrupted (observation)
    chatbot,            \* value of the gr.Chatbot component
    history,            \* bot: its history list
    pc,                 \* position of the running turn (user -> bot -> inference)
    attempt,            \* inference: attempt
    nchunks,            \* inference: chunks taken from the current stream
    partial_message,    \* inference: partial_message
    bot_last_save,      \* bot: its local last_save_time
    turn_obs,           \* observations of the running turn
    last_call,          \* observation of the latest call of the history store
    config,             \* ChatState.config (current_endpoint, parameters)
    client,             \* ChatState.client: the address it targets
    config_file,        \* content of CONFIG_FILE
    cfg_call,           \* observation of the latest configuration update
    chat_list,          \* choices of the chat_list dropdown
    peer                \* observation of the latest act of a second conversation

stateVars == <<is_stopped, current_chat_id, last_save_time, pending_save,
               last_save_attempt>>
turnVars == <<chatbot, history, pc, attempt, nchunks, partial_message,
              bot_last_save, turn_obs>>
cfgVars == <<config, client, config_file, cfg_call>>
uiVars == <<chat_list, peer>>
vars == <<now, stateVars, names, data, sv, crashed, turnVars, last_call,
          cfgVars, uiVars>>

-----------------------------------------------------------------------------
(* Bounds of the model *)

\* the clock stops advancing at MaxTime
MaxTime == 60
\* number of save calls made in the step-level store model
MaxSaves == 2
\* the clock advances TickStep at a time
TickStep == 20
\* chunks one response stream delivers at most
MaxDeltas == 3
\* records the history directory holds at most in the store interface model
MaxFiles == 1
\* turns of a conversation in the model of successive turns
MaxTurns == 2
\* the clock of the pending-save model stops advancing at MaxWait
MaxWait == 12
\* records the history directory holds at most in the model of the chat list
MaxListed == 3

(* Program constants *)

\* ChatState.save_interval
SaveInterval == 30
\* inference: max_retries
MaxRetries == 3
\* inference: time.sleep(1) between attempts
RetryPause == 1
\* validate_message: len(message) > 3999
MessageCap == 3999
\* check_pending_saves: "5 second cooldown"
PendingCooldown == 5
\* ChatState.last_save_attempt = 0: the epoch, which lies more than the
\* cooldown before the construction of the session (time 0 of the model)
Epoch == 0 - PendingCooldown - 1
\* number of buffer flushes json.dump needs for one record
SerChunks == 2

-----------------------------------------------------------------------------
(* Values *)

\* Python None / "" for a chat id or a title
NoId == [ts |-> -1, title |-> ""]
\* a plain title string (not preceded by a timestamp)
TitleStr(t) == [ts |-> -1, title |-> t]
\* titles the generation service may answer with
Titles == {"t1"}
\* f"Chat_{timestamp}", the fallback of generate_chat_title
FallbackTitle == "Chat_ts"

\* assistant slot of a turn: None, generated text, or the failure text
NoneMsg == [kind |-> "none", text |-> <<>>]
Text(s) == [kind |-> "text", text |-> s]
\* f"Error: Failed to generate response after {max_retries} attempts. ..."
ErrorMsg == [kind |-> "error", text |-> <<>>]
\* the delta with index idx of the stream of attempt att
Delta(att, idx) == [att |-> att, idx |-> idx]
\* a user message: its length and whether it has nothing but whitespace
PlainMessage == [len |-> 1, blank |-> FALSE]
\* a turn [message, answer]
TurnOf(m, a) == [user |-> m, assistant |-> a]
Turn(a) == TurnOf(PlainMessage, a)

\* the two threads of the step-level store model
Threads == {1, 2}

\* a hole left by writing past the end of a truncated file
Hole == [doc |-> NoId, part |-> 0]

-----------------------------------------------------------------------------
(* history_manager.py: pure parts of save_chat_history *)

\* generate_chat_title: the service's answer, or the fallback on any failure
GeneratedTitles == Titles \cup {FallbackTitle}

\* what generate_chat_title may return to a save of a session with id cid;
\* it is called only when the session has no id yet
TitleAnswers(cid) == IF cid = NoId THEN GeneratedTitles ELSE {""}

EmptyHistory_Never(h) == FALSE

\* "if not history"
EmptyHistory(h) == h = <<>>

Debounced_IgnoresForce(force, cid, lst, t) ==
    /\ cid # NoId
    /\ t - lst < SaveInterval

\* the debounce test of save_chat_history
Debounced(force, cid, lst, t) ==
    /\ ~force
    /\ cid # NoId
    /\ t - lst < SaveInterval

MintId_Always(cid, title, t) == [ts |-> t, title |-> title.title]

\* chat_id = f"{timestamp}_{title}" when the session has none, else the old one
MintId(cid, title, t) ==
    IF cid = NoId THEN [ts |-> t, title |-> title.title] ELSE cid

\* the title used by a save: the argument, else generated on a first save
EffTitle(cid, titleArg, gen) ==
    IF cid = NoId /\ titleArg = NoId THEN TitleStr(gen) ELSE titleArg

ChatData_TitleIsId(chat_id, title, h, t) ==
    [chat_id |-> chat_id, title |-> chat_id, history |-> h, timestamp |-> t,
     last_modified |-> t]

\* chat_data
ChatData(chat_id, title, h, t) ==
    [chat_id |-> chat_id,
     title |-> IF title = NoId THEN chat_id ELSE title,
     history |-> h,
     timestamp |-> t,
     last_modified |-> t]

\* filename = f"{HISTORY_DIR}/{chat_id}.json"
FinalName(chat_id) == [id |-> chat_id, ext |-> "json"]

TempFilename_InPlace(filename) == filename

\* temp_filename = f"{filename}.tmp"
TempFilename(filename) == [id |-> filename.id, ext |-> "json.tmp"]

\* json.dump: the record leaves the buffer in SerChunks pieces
Serialize(doc) == [i \in 1..SerChunks |-> [doc |-> doc, part |-> i]]

\* what a reader gets from content that is no serialized record
Corrupt == ChatData(NoId, NoId, <<>>, -1)

\* json.load: the record, when the content is exactly one serialized record
Parse(c) ==
    IF /\ Len(c) = SerChunks
       /\ \A i \in 1..SerChunks : c[i].part = i /\ c[i].doc = c[1].doc
    THEN c[1].doc
    ELSE Corrupt

-----------------------------------------------------------------------------
(* The file system *)

Exists(nm, f) == f \in DOMAIN nm

\* the smallest inode number not in use
FreeInode(d) == CHOOSE n \in 1..(Cardinality(DOMAIN d) + 1) : n \notin DOMAIN d

Unlink(nm, f) == [g \in DOMAIN nm \ {f} |-> nm[g]]

Link(nm, f, ino) == [g \in DOMAIN nm \cup {f} |-> IF g = f THEN ino ELSE nm[g]]

\* os.replace(src, dst), src existing
Rename(nm, src, dst) ==
    IF src = dst THEN nm ELSE Unlink(Link(nm, dst, nm[src]), src)

\* inodes are kept while a name or an open file refers to them
Live(nm, fds) == {nm[f] : f \in DOMAIN nm} \cup fds

Collect(d, nm, fds) == [i \in DOMAIN d \cap Live(nm, fds) |-> d[i]]

\* write one chunk at offset off
WriteAt(c, off, chunk) ==
    LET n == IF off + 1 > Len(c) THEN off + 1 ELSE Len(c)
    IN [i \in 1..n |-> IF i = off + 1 THEN chunk
                       ELSE IF i <= Len(c) THEN c[i] ELSE Hole]

\* what a reader finds under a name
Content(nm, d, f) ==
    IF Exists(nm, f) THEN [exists |-> TRUE, bytes |-> d[nm[f]]]
    ELSE [exists |-> FALSE, bytes |-> <<>>]

\* the inodes the threads hold open
OpenFds(s) == {s[w].fd : w \in {x \in Threads : s[x].fd # 0}}

-----------------------------------------------------------------------------
(* save_chat_history, statement by statement (threads of one process) *)

IdleSv == [pc |-> "idle", doc |-> ChatData(NoId, NoId, <<>>, 0), fd |-> 0,
           off |-> 0, t0 |-> 0,
           pre |-> [exists |-> FALSE, bytes |-> <<>>], cause |-> "none", n |-> 0]

Busy(w) == sv[w].pc # "idle"

\* [pc, doc, fd, off, t0]: the locals of the call; pre, cause and n observe it
SavesMade == sv[1].n + sv[2].n

TargetOf(w) == FinalName(sv[w].doc.chat_id)

\* lines 38-71: early returns, id minting, chat_data
SaveBegin(w, h, force, gen) ==
    /\ sv[w].pc = "idle"
    /\ SavesMade < MaxSaves
    /\ IF EmptyHistory(h)
       THEN /\ sv' = [sv EXCEPT ![w].n = @ + 1, ![w].cause = "none"]
            /\ UNCHANGED <<current_chat_id, crashed>>
       ELSE IF Debounced(force, current_chat_id, last_save_time, now)
       THEN /\ sv' = [sv EXCEPT ![w].n = @ + 1, ![w].cause = "none"]
            /\ UNCHANGED <<current_chat_id, crashed>>
       ELSE LET title == EffTitle(current_chat_id, NoId, gen)
                cid == MintId(current_chat_id, title, now)
                doc == ChatData(cid, title, h, now)
            IN /\ current_chat_id' = cid
               /\ sv' = [sv EXCEPT ![w] =
                           [pc |-> "open", doc |-> doc, fd |-> 0, off |-> 0,
                            t0 |-> now,
                            pre |-> Content(names, data, FinalName(cid)),
                            cause |-> "none", n |-> @.n + 1]]
               /\ crashed' = {r \in crashed : r.f # FinalName(cid)}
    /\ UNCHANGED <<now, is_stopped, last_save_time, pending_save,
                   last_save_attempt, names, data, turnVars, last_call>>
    /\ UNCHANGED <<cfgVars, uiVars>>

\* the id the call would write to
WouldWrite(gen) ==
    FinalName(MintId(current_chat_id, EffTitle(current_chat_id, NoId, gen), now))

\* the caller discipline the store asks for: one writer per record id
SaveBeginSerial(w, h, force, gen) ==
    /\ \A x \in Threads \ {w} : Busy(x) => TargetOf(x) # WouldWrite(gen)
    /\ SaveBegin(w, h, force, gen)

\* line 76: open(temp_filename, "w")
SaveOpen(w, ok) ==
    /\ sv[w].pc = "open"
    /\ LET tmp == TempFilename(TargetOf(w))
           old == Exists(names, tmp)
           ino == IF old THEN names[tmp] ELSE FreeInode(data)
       IN IF ok
          THEN /\ names' = Link(names, tmp, ino)
               /\ data' = [i \in DOMAIN data \cup {ino} |->
                             IF i = ino THEN <<>> ELSE data[i]]
               /\ sv' = [sv EXCEPT ![w].pc = "write", ![w].fd = ino,
                                   ![w].off = 0]
          ELSE /\ sv' = [sv EXCEPT ![w].pc = "except", ![w].cause = "io"]
               /\ UNCHANGED <<names, data>>
    /\ UNCHANGED <<now, stateVars, crashed, turnVars, last_call>>
    /\ UNCHANGED <<cfgVars, uiVars>>

\* line 77: json.dump, one flush at a time; the with block closes the file
SaveWrite(w, ok) ==
    /\ sv[w].pc = "write"
    /\ LET s == sv[w]
           off2 == s.off + 1
       IN IF ok
          THEN LET d2 == [data EXCEPT ![s.fd] =
                            WriteAt(@, s.off, Serialize(s.doc)[off2])]
                   done == off2 = SerChunks
                   sv2 == [sv EXCEPT ![w].off = off2,
                                     ![w].pc = IF done THEN "replace" ELSE "write",
                                     ![w].fd = IF done THEN 0 ELSE s.fd]
               IN /\ sv' = sv2
                  /\ data' = Collect(d2, names, OpenFds(sv2))
          ELSE LET sv2 == [sv EXCEPT ![w].pc = "except", ![w].fd = 0,
                                     ![w].cause = "io"]
               IN /\ sv' = sv2
                  /\ data' = Collect(data, names, OpenFds(sv2))
    /\ UNCHANGED <<now, stateVars, names, crashed, turnVars, last_call>>
    /\ UNCHANGED <<cfgVars, uiVars>>

\* lines 78, 85, 86: os.replace, then the bookkeeping of a successful save
SaveReplace(w) ==
    /\ sv[w].pc = "replace"
    /\ LET tmp == TempFilename(TargetOf(w))
       IN IF Exists(names, tmp)
          THEN LET nm2 == Rename(names, tmp, TargetOf(w))
               IN /\ names' = nm2
                  /\ data' = Collect(data, nm2, OpenFds(sv))
                  /\ last_save_time' = sv[w].t0
                  /\ sv' = [sv EXCEPT ![w] = [IdleSv EXCEPT !.n = sv[w].n]]
          ELSE /\ sv' = [sv EXCEPT ![w].pc = "except", ![w].cause = "missing"]
               /\ UNCHANGED <<names, data, last_save_time>>
    /\ UNCHANGED <<now, is_stopped, current_chat_id, pending_save,
                   last_save_attempt, crashed, turnVars, last_call>>
    /\ UNCHANGED <<cfgVars, uiVars>>

\* lines 79-83: the except clause
SaveExcept(w) ==
    /\ sv[w].pc = "except"
    /\ LET tmp == TempFilename(TargetOf(w))
           nm2 == IF Exists(names, tmp) THEN Unlink(names, tmp) ELSE names
       IN /\ names' = nm2
          /\ data' = Collect(data, nm2, OpenFds(sv))
    /\ sv' = [sv EXCEPT ![w] = [IdleSv EXCEPT !.n = sv[w].n,
                                               !.cause = sv[w].cause]]
    /\ UNCHANGED <<now, stateVars, crashed, turnVars, last_call>>
    /\ UNCHANGED <<cfgVars, uiVars>>

\* os.listdir: the orders in which it may enumerate the names of a directory
Enumerations(nm) ==
    {order \in [1..Cardinality(DOMAIN nm) -> DOMAIN nm] :
        \A i, j \in 1..Cardinality(DOMAIN nm) : i # j => order[i] # order[j]}

\* list_chat_histories: the entry made from a record
EntryOf(doc) ==
    [chat_id |-> doc.chat_id, title |-> doc.title,
     last_modified |-> doc.last_modified]

RECURSIVE Appended(_, _, _, _)
\* list_chat_histories: histories after its loop has seen order[1..n]; a file
\* that is no *.json or cannot be read as a record is passed over
Appended(nm, d, order, n) ==
    IF n = 0 THEN <<>>
    ELSE LET f == order[n]
             doc == Parse(d[nm[f]])
             before == Appended(nm, d, order, n - 1)
         IN IF f.ext = "json" /\ doc # Corrupt
            THEN Append(before, EntryOf(doc))
            ELSE before

RECURSIVE InsertSorted(_, _)
\* the place of e in a list sorted newest first: list.sort is stable, also
\* with reverse=True, so e stays behind the entries of the same time that
\* came before it
InsertSorted(sorted, e) ==
    IF sorted = <<>> THEN <<e>>
    ELSE IF Head(sorted).last_modified >= e.last_modified
         THEN <<Head(sorted)>> \o InsertSorted(Tail(sorted), e)
         ELSE <<e>> \o sorted

RECURSIVE SortNewestFirst(_)
\* histories.sort(key=lambda x: x["last_modified"], reverse=True)
SortNewestFirst(histories) ==
    IF histories = <<>> THEN <<>>
    ELSE InsertSorted(
             SortNewestFirst(SubSeq(histories, 1, Len(histories) - 1)),
             histories[Len(histories)])

\* list_chat_histories, os.listdir enumerating the directory in this order
ListChatHistories(nm, d, order) ==
    SortNewestFirst(Appended(nm, d, order, Len(order)))

\* the lists list_chat_histories may return for a directory
Listings(nm, d) == {ListChatHistories(nm, d, order) : order \in Enumerations(nm)}

\* the process is killed while a save is running and started again:
\* the files stay as they are, ChatState and the interface are built anew
Crash ==
    /\ \E w \in Threads : Busy(w)
    /\ crashed' = {[f |-> TargetOf(w), pre |-> sv[w].pre,
                    post |-> [exists |-> TRUE, bytes |-> Serialize(sv[w].doc)]] :
                        w \in {x \in Threads : Busy(x)}}
    /\ sv' = [w \in Threads |-> [IdleSv EXCEPT !.n = sv[w].n]]
    /\ data' = Collect(data, names, {})
    /\ is_stopped' = FALSE
    /\ current_chat_id' = NoId
    /\ last_save_time' = now
    /\ pending_save' = FALSE
    /\ last_save_attempt' = Epoch
    /\ chat_list' \in Listings(names, data')
    /\ UNCHANGED <<now, names, turnVars, last_call>>
    /\ UNCHANGED <<cfgVars, peer>>

\* load_chat_history
LoadChatHistory(nm, d, chat_id) ==
    IF Exists(nm, FinalName(chat_id))
    THEN Parse(d[nm[FinalName(chat_id)]])
    ELSE Corrupt

\* the ids list_chat_histories offers: the *.json files
ListedIds == {f.id : f \in {g \in DOMAIN names : g.ext = "json"}}

-----------------------------------------------------------------------------
(* save_chat_history as one step (no other thread between its statements) *)

\* state.last_save_time after the try block: line 85 is reached on success only
LastSaveAfter(ok, lst, t) == IF ok THEN t ELSE lst

\* the outcome of save_chat_history(h, state, title, force); gen is what
\* generate_chat_title answers, ok whether open / json.dump / os.replace succeed
SaveChatHistory(h, titleArg, force, gen, ok) ==
    LET same == [cid |-> current_chat_id, lst |-> last_save_time,
                 nm |-> names, d |-> data]
    IN IF EmptyHistory(h)
       THEN [ret |-> NoId, attempted |-> FALSE] @@ same
       ELSE IF Debounced(force, current_chat_id, last_save_time, now)
       THEN [ret |-> current_chat_id, attempted |-> FALSE] @@ same
       ELSE LET title == EffTitle(current_chat_id, titleArg, gen)
                cid == MintId(current_chat_id, title, now)
                doc == ChatData(cid, title, h, now)
                fin == FinalName(cid)
                tmp == TempFilename(fin)
                ino == IF Exists(names, tmp) THEN names[tmp] ELSE FreeInode(data)
                nmOk == Rename(Link(names, tmp, ino), tmp, fin)
                dOk == [i \in DOMAIN data \cup {ino} |->
                          IF i = ino THEN Serialize(doc) ELSE data[i]]
                nmFail == IF Exists(names, tmp) THEN Unlink(names, tmp) ELSE names
            IN IF ok
               THEN [ret |-> cid, attempted |-> TRUE, cid |-> cid,
                     lst |-> LastSaveAfter(TRUE, last_save_time, now),
                     nm |-> nmOk, d |-> Collect(dOk, nmOk, OpenFds(sv))]
               ELSE [ret |-> NoId, attempted |-> TRUE, cid |-> cid,
                     lst |-> LastSaveAfter(FALSE, last_save_time, now),
                     nm |-> nmFail,
                     d |-> Collect(data, nmFail, OpenFds(sv))]

\* the state after the call, and what the call is observed to have done
\* (written: the history the call has put under the id it returns)
ApplySave(r, h, titleArg, force) ==
    /\ current_chat_id' = r.cid
    /\ last_save_time' = r.lst
    /\ names' = r.nm
    /\ data' = r.d
    /\ last_call' = [seq |-> 1 - last_call.seq, op |-> "save", id |-> NoId,
                     nonempty |-> h # <<>>, force |-> force,
                     title |-> titleArg, ret |-> r.ret,
                     attempted |-> r.attempted,
                     written |-> IF r.attempted /\ r.ret # NoId THEN h
                                 ELSE <<>>]

NoSave == UNCHANGED <<current_chat_id, last_save_time, names, data, last_call>>

-----------------------------------------------------------------------------
(* ui.py: user, bot, stop; chat_state.py: inference *)

TurnObs0 == [requests |-> 0, failures |-> 0, forced |-> 0, periodic |-> 0,
             start |-> 0, last_yield |-> 0, gaps_ok |-> TRUE,
             stop_seen |-> FALSE, stop_content |-> NoneMsg, yielded |-> {},
             chat |-> NoId]

Generating == pc \in {"request", "stream", "sleep", "finish"}

\* the turn has left Generating
TurnEnded == pc = "done"

\* the assistant slot of the turn being generated
Assistant(h) == h[Len(h)].assistant

\* messages a user may submit: empty, one character or a space, at the cap,
\* beyond it
Messages == {[len |-> n, blank |-> b] :
                n \in {0, 1, MessageCap, MessageCap + 1}, b \in BOOLEAN}
             \ {[len |-> 0, blank |-> TRUE]}

\* ChatState.validate_message: whether the message is accepted
ValidateMessage(message) ==
    IF message.len = 0 \/ message.blank THEN FALSE
    ELSE IF message.len > MessageCap THEN FALSE
    ELSE TRUE

Reset_Keeps(flag) == flag

\* ChatState.reset: the flag afterwards
Reset(flag) == FALSE

\* user(message, history)
UserSubmits(message) ==
    /\ pc = "idle"
    /\ is_stopped' = Reset(is_stopped)
    /\ chatbot' = Append(chatbot, TurnOf(message, NoneMsg))
    /\ pc' = "start"
    /\ UNCHANGED <<now, current_chat_id, last_save_time, pending_save,
                   last_save_attempt, names, data, sv, crashed, history,
                   attempt, nchunks, partial_message, bot_last_save, turn_obs,
                   last_call>>
    /\ UNCHANGED <<cfgVars, uiVars>>

\* user called with an ordinary message
User == UserSubmits(PlainMessage)

\* bot(history) up to the call of inference
BotStart ==
    /\ pc = "start"
    /\ history' = chatbot
    /\ bot_last_save' = now
    /\ attempt' = 0
    /\ nchunks' = 0
    /\ partial_message' = <<>>
    /\ turn_obs' = [TurnObs0 EXCEPT !.start = now, !.last_yield = now,
                                    !.chat = current_chat_id]
    /\ pc' = "request"
    /\ UNCHANGED <<now, stateVars, names, data, sv, crashed, chatbot, last_call>>
    /\ UNCHANGED <<cfgVars, uiVars>>

\* bot: whether the periodic save is due
SaveDue(t, last) == t - last >= SaveInterval

BotLastSave_Stale(due, t, last) == last

\* bot: its last_save_time after the body of the loop
BotLastSave(due, t, last) == IF due THEN t ELSE last

\* bot: the body of its loop for one value yielded by inference
BotYield(value, obs, gen, ok) ==
    LET h2 == [history EXCEPT ![Len(history)].assistant = value]
        due == SaveDue(now, bot_last_save)
        r == SaveChatHistory(h2, NoId, FALSE, gen, ok)
    IN /\ history' = h2
       /\ chatbot' = h2
       /\ bot_last_save' = BotLastSave(due, now, bot_last_save)
       /\ IF due THEN ApplySave(r, h2, NoId, FALSE) ELSE NoSave
       /\ turn_obs' = [obs EXCEPT
              !.periodic = IF due THEN @ + 1 ELSE @,
              !.gaps_ok = @ /\ now - obs.last_yield < SaveInterval,
              !.last_yield = now,
              !.yielded = @ \cup {attempt}]

ForceFinal_NotForced == FALSE

\* bot: the force argument of its save after the loop
ForceFinal == TRUE

\* bot: the generator is exhausted; "Final save after completion"
BotFinish(obs, gen, ok) ==
    /\ ApplySave(SaveChatHistory(history, NoId, ForceFinal, gen, ok), history,
                 NoId, ForceFinal)
    /\ turn_obs' = [obs EXCEPT !.forced = @ + 1]
    /\ pc' = "done"
    /\ UNCHANGED <<chatbot, history, bot_last_save>>

LastAttempt_OffByOne(a) == a = MaxRetries

\* inference: attempt == max_retries - 1
LastAttempt(a) == a = MaxRetries - 1

\* inference: the except clause, entered with the observations obs
AttemptFailed(obs0, gen, ok) ==
    LET obs == [obs0 EXCEPT !.failures = @ + 1]
    IN IF LastAttempt(attempt)
       THEN /\ BotYield(ErrorMsg, obs, gen, ok)
            /\ pc' = "finish"
       ELSE /\ turn_obs' = obs
            /\ pc' = "sleep"
            /\ NoSave
            /\ UNCHANGED <<chatbot, history, bot_last_save>>

PartialAtRequest_Kept(p) == p

\* inference: partial_message = "" once the stream is there
PartialAtRequest(p) == <<>>

\* inference: state.client.chat.completions.create(...), answered or raising
Request(answers) ==
    /\ pc = "request"
    /\ LET obs == [turn_obs EXCEPT !.requests = @ + 1]
       IN IF answers
          THEN /\ turn_obs' = obs
               /\ partial_message' = PartialAtRequest(partial_message)
               /\ nchunks' = 0
               /\ pc' = "stream"
               /\ NoSave
               /\ UNCHANGED <<chatbot, history, bot_last_save>>
          ELSE /\ \E gen \in TitleAnswers(current_chat_id), ok \in BOOLEAN :
                    AttemptFailed(obs, gen, ok)
               /\ UNCHANGED <<partial_message, nchunks>>
    /\ UNCHANGED <<now, is_stopped, pending_save, last_save_attempt, sv,
                   crashed, attempt>>
    /\ UNCHANGED <<cfgVars, uiVars>>

\* inference: one round of "for chunk in output", up to the next yield or to
\* the end of the generator; bot then runs its loop body or its final save.
\* kind: what the stream does next
Chunk(kind) ==
    /\ pc = "stream"
    /\ kind \in {"text", "empty"} => nchunks < MaxDeltas
    /\ \E gen \in TitleAnswers(current_chat_id), ok \in BOOLEAN :
         CASE kind = "raise" ->
                /\ AttemptFailed(turn_obs, gen, ok)
                /\ UNCHANGED <<partial_message, nchunks>>
           [] kind = "end" ->
                /\ BotFinish(turn_obs, gen, ok)
                /\ UNCHANGED <<partial_message, nchunks>>
           [] kind \in {"text", "empty"} /\ is_stopped ->
                /\ BotFinish(turn_obs, gen, ok)
                /\ UNCHANGED <<partial_message, nchunks>>
           [] kind = "empty" /\ ~is_stopped ->
                /\ nchunks' = nchunks + 1
                /\ NoSave
                /\ UNCHANGED <<partial_message, chatbot, history,
                               bot_last_save, turn_obs, pc>>
           [] kind = "text" /\ ~is_stopped ->
                LET p == Append(partial_message, Delta(attempt, nchunks + 1))
                IN /\ partial_message' = p
                   /\ nchunks' = nchunks + 1
                   /\ BotYield(Text(p), turn_obs, gen, ok)
                   /\ pc' = "stream"
    /\ UNCHANGED <<now, is_stopped, pending_save, last_save_attempt, sv,
                   crashed, attempt>>
    /\ UNCHANGED <<cfgVars, uiVars>>

MoreAttempts_Always(a) == TRUE

\* inference: whether range(max_retries) holds a value after a
MoreAttempts(a) == a + 1 < MaxRetries

\* inference: time.sleep(1), then the next round of "for attempt in range"
Sleep ==
    /\ pc = "sleep"
    /\ now + RetryPause <= MaxTime
    /\ now' = now + RetryPause
    /\ attempt' = attempt + 1
    /\ IF MoreAttempts(attempt)
       THEN /\ pc' = "request"
            /\ NoSave
            /\ UNCHANGED <<chatbot, history, bot_last_save, turn_obs>>
       ELSE \E gen \in TitleAnswers(current_chat_id), ok \in BOOLEAN :
                BotFinish(turn_obs, gen, ok)
    /\ UNCHANGED <<is_stopped, pending_save, last_save_attempt, sv, crashed,
                   nchunks, partial_message>>
    /\ UNCHANGED <<cfgVars, uiVars>>

\* inference resumed after the failure text was yielded: the next round of
\* "for attempt in range"; bot runs its final save when the generator ends
Finish ==
    /\ pc = "finish"
    /\ IF MoreAttempts(attempt)
       THEN /\ attempt' = attempt + 1
            /\ pc' = "request"
            /\ NoSave
            /\ UNCHANGED <<chatbot, history, bot_last_save, turn_obs>>
       ELSE /\ \E gen \in TitleAnswers(current_chat_id), ok \in BOOLEAN :
                 BotFinish(turn_obs, gen, ok)
            /\ UNCHANGED attempt
    /\ UNCHANGED <<now, is_stopped, pending_save, last_save_attempt, sv,
                   crashed, nchunks, partial_message>>
    /\ UNCHANGED <<cfgVars, uiVars>>

\* stop.click: state.stop()
Stop ==
    /\ is_stopped' = TRUE
    /\ turn_obs' = IF Generating /\ ~turn_obs.stop_seen
                   THEN [turn_obs EXCEPT !.stop_seen = TRUE,
                                         !.stop_content = Assistant(history)]
                   ELSE turn_obs
    /\ UNCHANGED <<now, current_chat_id, last_save_time, pending_save,
                   last_save_attempt, names, data, sv, crashed, chatbot,
                   history, pc, attempt, nchunks, partial_message,
                   bot_last_save, last_call>>
    /\ UNCHANGED <<cfgVars, uiVars>>

\* new_chat
NewChat ==
    /\ current_chat_id # NoId \/ chatbot # <<>>
    /\ current_chat_id' = NoId
    /\ chatbot' = <<>>
    /\ UNCHANGED <<now, is_stopped, last_save_time, pending_save,
                   last_save_attempt, names, data, sv, crashed, history, pc,
                   attempt, nchunks, partial_message, bot_last_save, turn_obs,
                   last_call>>
    /\ UNCHANGED <<cfgVars, uiVars>>

\* ChatState.schedule_save
ScheduleSave ==
    /\ ~pending_save
    /\ pending_save' = TRUE
    /\ UNCHANGED <<now, is_stopped, current_chat_id, last_save_time,
                   last_save_attempt, names, data, sv, crashed, turnVars,
                   last_call>>
    /\ UNCHANGED <<cfgVars, uiVars>>

RetryDue_NoCooldown(pending, t, last) == pending

\* check_pending_saves: the test that lets the save run
RetryDue(pending, t, last) == pending /\ t - last >= PendingCooldown

\* ChatState.check_pending_saves(h); last_call.force tells whether
\* save_chat_history was called
CheckPendingSaves(h) ==
    /\ pc = "idle"
    /\ IF RetryDue(pending_save, now, last_save_attempt)
       THEN \E gen \in TitleAnswers(current_chat_id), ok \in BOOLEAN :
              LET r == SaveChatHistory(h, NoId, TRUE, gen, ok)
              IN /\ Cardinality({f \in DOMAIN r.nm : f.ext = "json"}) <= MaxFiles
                 /\ current_chat_id' = r.cid
                 /\ last_save_time' = r.lst
                 /\ names' = r.nm
                 /\ data' = r.d
                 /\ pending_save' = IF r.ret # NoId THEN FALSE ELSE pending_save
                 /\ last_save_attempt' = now
                 /\ last_call' = [seq |-> 1 - last_call.seq, op |-> "check",
                                  id |-> NoId, nonempty |-> h # <<>>,
                                  force |-> TRUE, title |-> NoId,
                                  ret |-> r.ret, attempted |-> r.attempted,
                                  written |-> IF r.attempted /\ r.ret # NoId
                                              THEN h ELSE <<>>]
       ELSE /\ last_call' = [seq |-> 1 - last_call.seq, op |-> "check",
                             id |-> NoId, nonempty |-> h # <<>>,
                             force |-> FALSE, title |-> NoId, ret |-> NoId,
                             attempted |-> FALSE, written |-> <<>>]
            /\ UNCHANGED <<current_chat_id, last_save_time, names, data,
                           pending_save, last_save_attempt>>
    /\ UNCHANGED <<now, is_stopped, sv, crashed, turnVars>>
    /\ UNCHANGED <<cfgVars, uiVars>>

\* one second passes
Elapse ==
    /\ now < MaxWait
    /\ now' = now + 1
    /\ UNCHANGED <<stateVars, names, data, sv, crashed, turnVars, last_call>>
    /\ UNCHANGED <<cfgVars, uiVars>>

\* time passes
Tick ==
    /\ now + TickStep <= MaxTime
    /\ now' = now + TickStep
    /\ UNCHANGED <<stateVars, names, data, sv, crashed, turnVars, last_call>>
    /\ UNCHANGED <<cfgVars, uiVars>>

-----------------------------------------------------------------------------
(* history_manager.py: list and delete; ui.py: the chat list handlers *)

\* a session that already holds a saved conversation of one turn
SavedId == [ts |-> 0, title |-> "t1"]
SavedHistory == <<Turn(Text(<<Delta(0, 1)>>))>>
SavedDoc == ChatData(SavedId, TitleStr("t1"), SavedHistory, 0)


DeleteChatHistory_Clears(nm, chat_id) == <<>>

\* delete_chat_history: the directory afterwards
DeleteChatHistory(nm, chat_id) ==
    IF Exists(nm, FinalName(chat_id)) THEN Unlink(nm, FinalName(chat_id)) ELSE nm

\* list_chat_histories: the entries of the readable *.json files (their order
\* left aside)
ListEntries(nm, d) ==
    {[chat_id |-> Parse(d[nm[f]]).chat_id, title |-> Parse(d[nm[f]]).title,
      last_modified |-> Parse(d[nm[f]]).last_modified] :
        f \in {g \in DOMAIN nm : g.ext = "json" /\ Parse(d[nm[g]]) # Corrupt}}

\* the ids a caller may name: those listed, the current one, one never stored
IdsToTry == (ListedIds \cup {current_chat_id, SavedId}) \ {NoId}

\* load_selected_chat, the selection naming chat_id
LoadSelectedChat(chat_id) ==
    /\ LET loaded == LoadChatHistory(names, data, chat_id)
       IN IF loaded # Corrupt
          THEN /\ current_chat_id' = loaded.chat_id
               /\ chatbot' = loaded.history
          ELSE /\ chatbot' = <<>>
               /\ UNCHANGED current_chat_id
    /\ last_call' = [seq |-> 1 - last_call.seq, op |-> "load", id |-> chat_id,
                     nonempty |-> FALSE, force |-> FALSE, title |-> NoId,
                     ret |-> NoId, attempted |-> FALSE, written |-> <<>>]
    /\ UNCHANGED <<now, is_stopped, last_save_time, pending_save,
                   last_save_attempt, names, data, sv, crashed, history, pc,
                   attempt, nchunks, partial_message, bot_last_save, turn_obs>>
    /\ UNCHANGED <<cfgVars, uiVars>>

\* delete_current_chat, the selection naming chat_id; last_call.attempted
\* tells whether a record was removed
DeleteCurrentChat(chat_id) ==
    /\ pc = "idle"
    /\ names' = DeleteChatHistory(names, chat_id)
    /\ data' = Collect(data, names', OpenFds(sv))
    /\ chatbot' = <<>>
    /\ chat_list' \in Listings(names', data')
    /\ last_call' = [seq |-> 1 - last_call.seq, op |-> "delete",
                     id |-> chat_id, nonempty |-> FALSE, force |-> FALSE,
                     title |-> NoId, ret |-> NoId,
                     attempted |-> Exists(names, FinalName(chat_id)),
                     written |-> <<>>]
    /\ UNCHANGED <<now, stateVars, sv, crashed, history, pc, attempt, nchunks,
                   partial_message, bot_last_save, turn_obs>>
    /\ UNCHANGED <<cfgVars, peer>>

\* a second conversation (another browser session of the same demo) runs a
\* handler op; create_demo constructs one ChatState, which every handler of
\* every conversation closes over, while each conversation has its own
\* chatbot value
PeerActs(op) ==
    /\ peer' = [seq |-> 1 - peer.seq, op |-> op]
    /\ UNCHANGED <<now, last_save_time, pending_save, last_save_attempt,
                   names, data, sv, crashed, turnVars, last_call, chat_list>>
    /\ UNCHANGED cfgVars

\* user in the second conversation: state.reset()
PeerUser ==
    /\ is_stopped' = Reset(is_stopped)
    /\ UNCHANGED current_chat_id
    /\ PeerActs("user")

\* stop.click in the second conversation: state.stop()
PeerStop ==
    /\ is_stopped' = TRUE
    /\ UNCHANGED current_chat_id
    /\ PeerActs("stop")

\* new_chat in the second conversation
PeerNewChat ==
    /\ current_chat_id' = NoId
    /\ UNCHANGED is_stopped
    /\ PeerActs("new_chat")

\* load_selected_chat in the second conversation
PeerLoad(chat_id) ==
    /\ LET loaded == LoadChatHistory(names, data, chat_id)
       IN current_chat_id' = IF loaded # Corrupt THEN loaded.chat_id
                             ELSE current_chat_id
    /\ UNCHANGED is_stopped
    /\ PeerActs("load")

-----------------------------------------------------------------------------
(* config.py, chat_state.py: the configuration of the session *)

\* addresses of generation servers; DEFAULT_CONFIG["current_endpoint"] is "e0"
Endpoints == {"e0", "e1"}
DefaultEndpoint == "e0"

\* DEFAULT_CONFIG["parameters"]; temperature in tenths, top_p in hundredths
DefaultParameters == [temperature |-> 7, top_p |-> 95, max_tokens |-> 1024]

\* DEFAULT_CONFIG (the list of known endpoints is left out)
DefaultConfig == [current_endpoint |-> DefaultEndpoint,
                  parameters |-> DefaultParameters]

ParamNames == {"temperature", "top_p", "max_tokens"}

\* values a caller passes for a parameter: the ends of its range and the
\* nearest values outside
ParamValues(param_name) ==
    CASE param_name = "temperature" -> {-1, 0, 20, 21}
      [] param_name = "top_p" -> {-1, 0, 100, 101}
      [] param_name = "max_tokens" -> {63, 64, 4096, 4097}

\* CONFIG_FILE: missing, holding a configuration, or cut short by a failed dump
AbsentFile == [state |-> "absent", config |-> DefaultConfig]
TruncatedFile == [state |-> "truncated", config |-> DefaultConfig]
FileOf(cfg) == [state |-> "ok", config |-> cfg]

\* outcomes of open(CONFIG_FILE, "w") followed by json.dump
IoOutcomes == {"ok", "open_fails", "dump_fails"}

\* save_config: the file afterwards
SaveConfig(file, cfg, io) ==
    CASE io = "ok" -> FileOf(cfg)
      [] io = "open_fails" -> file
      [] io = "dump_fails" -> TruncatedFile

\* load_config
LoadConfig(file) == IF file.state = "ok" THEN file.config ELSE DefaultConfig

OutOfRange_Never(param_name, value) == FALSE

\* update_parameter: "Validate parameter ranges"
OutOfRange(param_name, value) ==
    \/ param_name = "temperature" /\ ~(0 <= value /\ value <= 20)
    \/ param_name = "top_p" /\ ~(0 <= value /\ value <= 100)
    \/ param_name = "max_tokens" /\ ~(64 <= value /\ value <= 4096)

\* update_parameter(param_name, value); io: how save_config fares
UpdateParameter(param_name, value, io) ==
    /\ IF OutOfRange(param_name, value)
       THEN UNCHANGED <<config, config_file>>
       ELSE LET cfg == [config EXCEPT !.parameters[param_name] = value]
            IN /\ config' = cfg
               /\ config_file' = SaveConfig(config_file, cfg, io)
    /\ cfg_call' = [seq |-> 1 - cfg_call.seq, op |-> "parameter",
                    name |-> param_name, value |-> value, built |-> FALSE]
    /\ UNCHANGED <<now, stateVars, names, data, sv, crashed, turnVars,
                   last_call, client, uiVars>>

CurrentEndpointAfter_Always(built, old, endpoint) == endpoint

\* update_endpoint: config["current_endpoint"] after the try block
CurrentEndpointAfter(built, old, endpoint) == IF built THEN endpoint ELSE old

\* update_endpoint(endpoint); constructible: the addresses InferenceClient
\* accepts at this moment, io: how save_config fares
UpdateEndpoint(endpoint, constructible, io) ==
    LET built == endpoint \in constructible
        cur == CurrentEndpointAfter(built, config.current_endpoint, endpoint)
        raised == ~built \/ io # "ok"
        tried == IF built THEN endpoint ELSE client
    IN /\ config' = [config EXCEPT !.current_endpoint = cur]
       /\ config_file' = IF built
                         THEN SaveConfig(config_file, config', io)
                         ELSE config_file
       /\ client' = IF raised /\ cur \in constructible THEN cur ELSE tried
       /\ cfg_call' = [seq |-> 1 - cfg_call.seq, op |-> "endpoint",
                       name |-> endpoint, value |-> 0, built |-> built]
       /\ UNCHANGED <<now, stateVars, names, data, sv, crashed, turnVars,
                      last_call, uiVars>>

-----------------------------------------------------------------------------
(* Specifications *)

\* the state after ChatState() and create_demo(), the directory being nm / d,
\* the session holding the id cid and the chatbot showing cb
InitOn(cid, nm, d, cb) ==
    /\ now = 0
    /\ is_stopped = FALSE
    /\ current_chat_id = cid
    /\ last_save_time = 0
    /\ pending_save = FALSE
    /\ last_save_attempt = Epoch
    /\ names = nm
    /\ data = d
    /\ sv = [w \in Threads |-> IdleSv]
    /\ crashed = {}
    /\ chatbot = cb
    /\ history = <<>>
    /\ pc = "idle"
    /\ attempt = 0
    /\ nchunks = 0
    /\ partial_message = <<>>
    /\ bot_last_save = 0
    /\ turn_obs = TurnObs0
    /\ last_call = [seq |-> 0, op |-> "none", id |-> NoId,
                    nonempty |-> FALSE, force |-> FALSE, title |-> NoId,
                    ret |-> NoId, attempted |-> FALSE, written |-> <<>>]
    /\ config_file = AbsentFile
    /\ config = LoadConfig(config_file)
    /\ client = config.current_endpoint
    /\ cfg_call = [seq |-> 0, op |-> "none", name |-> "", value |-> 0,
                   built |-> FALSE]
    /\ chat_list \in Listings(nm, d)
    /\ peer = [seq |-> 0, op |-> "none"]

\* a new session (saved = FALSE), or one whose first turn was answered and
\* saved at time 0 (saved = TRUE)
InitWith(saved) ==
    IF saved
    THEN InitOn(SavedId, FinalName(SavedId) :> 1, <<Serialize(SavedDoc)>>,
                SavedHistory)
    ELSE InitOn(NoId, <<>>, <<>>, <<>>)

Init == \E saved \in BOOLEAN : InitWith(saved)

\* save_chat_history called by a client of the store
ApiSave(h, titleArg, force) ==
    /\ pc = "idle"
    /\ \E gen \in TitleAnswers(current_chat_id), ok \in BOOLEAN :
         LET r == SaveChatHistory(h, titleArg, force, gen, ok)
         IN /\ Cardinality({f \in DOMAIN r.nm : f.ext = "json"}) <= MaxFiles
            /\ ApplySave(r, h, titleArg, force)
    /\ UNCHANGED <<now, is_stopped, pending_save, last_save_attempt, sv,
                   crashed, turnVars>>
    /\ UNCHANGED <<cfgVars, uiVars>>

\* delete_chat_history called by a client of the store; last_call.attempted
\* tells whether a record was removed
ApiDelete(chat_id) ==
    /\ pc = "idle"
    /\ names' = DeleteChatHistory(names, chat_id)
    /\ data' = Collect(data, names', OpenFds(sv))
    /\ last_call' = [seq |-> 1 - last_call.seq, op |-> "delete",
                     id |-> chat_id, nonempty |-> FALSE, force |-> FALSE,
                     title |-> NoId, ret |-> NoId,
                     attempted |-> Exists(names, FinalName(chat_id)),
                     written |-> <<>>]
    /\ UNCHANGED <<now, stateVars, sv, crashed, turnVars>>
    /\ UNCHANGED <<cfgVars, uiVars>>

\* one turn of a conversation, from user to the end of bot
Next ==
    \/ User
    \/ BotStart
    \/ \E answers \in BOOLEAN : Request(answers)
    \/ \E kind \in {"text", "empty", "end", "raise"} : Chunk(kind)
    \/ Sleep
    \/ Finish
    \/ Stop
    \/ Tick

Spec == Init /\ [][Next]_vars

\* the history a thread of the step-level store model saves
HistoryOf(w) == <<Turn(Text(<<Delta(0, w)>>))>>

\* two threads inside save_chat_history at once, storage healthy
NextConc ==
    \/ \E w \in Threads : \E h \in {<<>>, HistoryOf(w)}, f \in BOOLEAN,
                             g \in TitleAnswers(current_chat_id) :
                                 SaveBegin(w, h, f, g)
    \/ \E w \in Threads : SaveOpen(w, TRUE)
    \/ \E w \in Threads : SaveWrite(w, TRUE)
    \/ \E w \in Threads : SaveReplace(w)
    \/ \E w \in Threads : SaveExcept(w)

SpecConc == Init /\ [][NextConc]_vars

\* one writer per record id at a time, failing storage, and crashes
NextCrash ==
    \/ \E w \in Threads : \E h \in {<<>>, HistoryOf(w)}, f \in BOOLEAN,
                             g \in TitleAnswers(current_chat_id) :
                                 SaveBeginSerial(w, h, f, g)
    \/ \E w \in Threads, ok \in BOOLEAN : SaveOpen(w, ok)
    \/ \E w \in Threads, ok \in BOOLEAN : SaveWrite(w, ok)
    \/ \E w \in Threads : SaveReplace(w)
    \/ \E w \in Threads : SaveExcept(w)
    \/ NewChat
    \/ Crash

SpecCrash == Init /\ [][NextCrash]_vars

\* the store driven through its interface: saves at any time, forced or not
NextApi ==
    \/ \E h \in {<<>>, HistoryOf(1), HistoryOf(2)}, force \in BOOLEAN :
          ApiSave(h, NoId, force)
    \/ NewChat
    \/ Tick

SpecApi == Init /\ [][NextApi]_vars

\* bot: its generator has returned and the interface accepts the next message
BotReturns ==
    /\ pc = "done"
    /\ Len(chatbot) < MaxTurns
    /\ pc' = "idle"
    /\ UNCHANGED <<now, stateVars, names, data, sv, crashed, chatbot, history,
                   attempt, nchunks, partial_message, bot_last_save, turn_obs,
                   last_call>>
    /\ UNCHANGED <<cfgVars, uiVars>>

\* one turn with any message, the clock moved by the retry pauses only
NextMsg ==
    \/ \E message \in Messages : UserSubmits(message)
    \/ BotStart
    \/ \E answers \in BOOLEAN : Request(answers)
    \/ \E kind \in {"text", "empty", "end", "raise"} : Chunk(kind)
    \/ Sleep
    \/ Finish

SpecMsg == Init /\ [][NextMsg]_vars

\* turn after turn with a server that answers, and stop at any moment
NextTurns ==
    \/ User
    \/ BotStart
    \/ Request(TRUE)
    \/ \E kind \in {"text", "end"} : Chunk(kind)
    \/ Stop
    \/ BotReturns

SpecTurns == Init /\ [][NextTurns]_vars

\* time passes before the retry pauses of a turn have used up the clock
TickEarly ==
    /\ now + TickStep + MaxRetries * RetryPause <= MaxTime
    /\ Tick

\* one turn, the server, the storage and the user doing anything
NextLive ==
    \/ User
    \/ BotStart
    \/ \E answers \in BOOLEAN : Request(answers)
    \/ \E kind \in {"text", "end", "raise"} : Chunk(kind)
    \/ Sleep
    \/ Finish
    \/ Stop
    \/ TickEarly

\* the generators are run to their end: the server answers or raises, a stream
\* of at most MaxDeltas chunks delivers its next chunk, ends or raises, the
\* pause of one time unit passes
SpecLive ==
    /\ Init
    /\ [][NextLive]_vars
    /\ WF_vars(\E answers \in BOOLEAN : Request(answers))
    /\ WF_vars(\E kind \in {"text", "end", "raise"} : Chunk(kind))
    /\ WF_vars(Sleep)
    /\ WF_vars(Finish)

\* saves scheduled for a retry and the periodic check, second by second
NextPending ==
    \/ ScheduleSave
    \/ \E h \in {<<>>, HistoryOf(1)} : CheckPendingSaves(h)
    \/ Elapse

SpecPending == Init /\ [][NextPending]_vars

\* ids of records left by earlier sessions, minted before this session was
\* constructed; the timestamp leads the id, so it orders the ids
EarlierIds == {[ts |-> 0 - k - 1, title |-> "t1"] : k \in 1..MaxListed}

\* the times at which such a record was last modified
EarlierTimes == {0 - 1, 0}

\* the directory holding the records ids, last modified at the times lm
NamesOf(ids) == [f \in {FinalName(id) : id \in ids} |-> 0 - f.id.ts]

DataOf(ids, lm) ==
    [i \in {0 - id.ts : id \in ids} |->
        LET id == CHOOSE x \in ids : 0 - x.ts = i
        IN Serialize([ChatData(id, TitleStr(id.title), SavedHistory, id.ts)
                         EXCEPT !.last_modified = lm[id]])]

\* a session constructed over a directory of records of earlier sessions
InitList ==
    \E ids \in SUBSET EarlierIds : \E lm \in [ids -> EarlierTimes] :
        InitOn(NoId, NamesOf(ids), DataOf(ids, lm), <<>>)

\* the chat list, refreshed by each deletion
NextList == \E chat_id \in IdsToTry : DeleteCurrentChat(chat_id)

SpecList == InitList /\ [][NextList]_vars

\* one turn with a server that answers, the user starting a new chat or
\* selecting a stored one at any moment
NextSwitch ==
    \/ User
    \/ BotStart
    \/ Request(TRUE)
    \/ \E kind \in {"text", "end"} : Chunk(kind)
    \/ NewChat
    \/ \E chat_id \in IdsToTry : LoadSelectedChat(chat_id)

SpecSwitch == Init /\ [][NextSwitch]_vars

\* one turn of a conversation with a server that answers, while a second
\* conversation is used
NextShared ==
    \/ User
    \/ BotStart
    \/ Request(TRUE)
    \/ \E kind \in {"text", "end"} : Chunk(kind)
    \/ Stop
    \/ PeerUser
    \/ PeerStop
    \/ PeerNewChat
    \/ \E chat_id \in IdsToTry : PeerLoad(chat_id)

SpecShared == Init /\ [][NextShared]_vars

\* one turn with a server that answers or fails, after the user has used
\* the Delete button
NextDelete ==
    \/ \E chat_id \in IdsToTry : DeleteCurrentChat(chat_id)
    \/ User
    \/ BotStart
    \/ \E answers \in BOOLEAN : Request(answers)
    \/ \E kind \in {"text", "end", "raise"} : Chunk(kind)
    \/ Sleep
    \/ Finish

SpecDelete == Init /\ [][NextDelete]_vars

\* titles a client of the store passes: none, or an explicit one
TitleArgs == {NoId, TitleStr("t2")}

\* the store driven through its interface, the session through new_chat and
\* load_selected_chat, the clock standing still
NextStore ==
    \/ \E h \in {<<>>, HistoryOf(2)}, titleArg \in TitleArgs,
          force \in BOOLEAN : ApiSave(h, titleArg, force)
    \/ NewChat
    \/ \E chat_id \in IdsToTry : LoadSelectedChat(chat_id)
    \/ \E chat_id \in IdsToTry : ApiDelete(chat_id)

SpecStore == Init /\ [][NextStore]_vars

\* the settings tab: parameter sliders and the endpoint dropdown
NextConfig ==
    \/ \E param_name \in ParamNames :
          \E value \in ParamValues(param_name), io \in IoOutcomes :
             UpdateParameter(param_name, value, io)
    \/ \E endpoint \in Endpoints, constructible \in SUBSET Endpoints,
          io \in IoOutcomes : UpdateEndpoint(endpoint, constructible, io)

SpecConfig == Init /\ [][NextConfig]_vars

-----------------------------------------------------------------------------
(* Properties *)

\* the history stored under chat_id, <<>> when there is no readable record
StoredHistory(chat_id) == LoadChatHistory(names, data, chat_id).history

\* what the save of thread w is writing
Post(w) == [exists |-> TRUE, bytes |-> Serialize(sv[w].doc)]

IsRecordFile(f) == f.ext = "json"

\* C1: with one writer per record id, whatever the point at which a save is
\* interrupted (failure or crash), the file under the record's name is the
\* version from before the save or the complete new version, and every record
\* file parses
C1_AtomicReplace ==
    /\ \A w \in Threads : Busy(w) =>
          Content(names, data, TargetOf(w)) \in {sv[w].pre, Post(w)}
    /\ \A r \in crashed : Content(names, data, r.f) \in {r.pre, r.post}
    /\ \A f \in DOMAIN names : IsRecordFile(f) => Parse(data[names[f]]) # Corrupt

\* a crash has left a half-written temporary file beside the intact old record
C1_Witness ==
    \E r \in crashed :
        /\ r.pre.exists
        /\ r.post # r.pre
        /\ Content(names, data, r.f) = r.pre
        /\ Exists(names, TempFilename(r.f))
        /\ Len(data[names[TempFilename(r.f)]]) = 1

\* C2: two saves of one record id running at once leave a complete record of
\* one of them, and neither fails because of the other
C2_SerializedPerId ==
    /\ \A f \in DOMAIN names : IsRecordFile(f) => Parse(data[names[f]]) # Corrupt
    /\ \A w \in Threads : sv[w].cause # "missing"

C6_RetryCeiling ==
    /\ turn_obs.requests <= MaxRetries
    /\ (TurnEnded /\ turn_obs.failures = turn_obs.requests) =>
          /\ turn_obs.requests = MaxRetries
          /\ Assistant(history) = ErrorMsg
          /\ turn_obs.forced = 1

\* all attempts failed, one of them after it had emitted text
C6_Witness ==
    /\ TurnEnded
    /\ turn_obs.failures = MaxRetries
    /\ turn_obs.yielded # {}

\* C7: when stop is requested after k >= 1 deltas, the turn ends with exactly
\* those k deltas as its assistant text, also in the stored record
C7_CancelKeepsFirstK ==
    (TurnEnded /\ turn_obs.stop_seen /\ turn_obs.stop_content.kind = "text") =>
        /\ Assistant(history) = turn_obs.stop_content
        /\ last_call.ret # NoId => StoredHistory(current_chat_id) = history

\* C8: once the stop flag is set while a turn is generating, no further
\* request is issued for that turn
C8_NoRequestAfterStop ==
    [][(is_stopped /\ Generating) =>
          turn_obs'.requests = turn_obs.requests]_vars

\* all deltas of m come from one attempt, in stream order
OneAttempt(m) ==
    \A i \in 1..Len(m.text) :
        /\ m.text[i].att = m.text[1].att
        /\ i > 1 => m.text[i].idx > m.text[i - 1].idx

\* C9: what an attempt emits is built from its own deltas only, so the
\* assistant text never holds deltas of two attempts
C9_NoSplice ==
    /\ pc = "stream" =>
          \A i \in 1..Len(partial_message) : partial_message[i].att = attempt
    /\ history # <<>> => OneAttempt(Assistant(history))

\* the text of a retry, after an earlier attempt had emitted text and failed
C9_Witness ==
    /\ TurnEnded
    /\ Assistant(history).kind = "text"
    /\ Assistant(history).text[1].att = 1
    /\ 0 \in turn_obs.yielded

SaveStep == last_call'.seq # last_call.seq /\ last_call'.op = "save"

\* C12 as stated: every save of a session that has an id keeps the id and
\* returns it, whether the save is forced or not and succeeds or fails
C12_SameIdReturned ==
    [][(SaveStep /\ current_chat_id # NoId) =>
         /\ current_chat_id' = current_chat_id
         /\ last_call'.ret = current_chat_id]_vars

\* C12 amended: every save of a session that has an id keeps the id, creates
\* no file but that id's record, and returns the id unless the history is
\* empty or the write fails; the id changes only when a new chat is started
C12_IdMintedOnce ==
    [][/\ (SaveStep /\ current_chat_id # NoId) =>
            /\ current_chat_id' = current_chat_id
            /\ DOMAIN names' \ DOMAIN names \subseteq
                  {FinalName(current_chat_id)}
            /\ last_call'.ret \in {current_chat_id, NoId}
            /\ last_call'.ret = NoId =>
                  ~last_call'.nonempty \/ last_call'.attempted
            /\ (last_call'.attempted /\ last_call'.ret # NoId) =>
                  StoredHistory(current_chat_id)' = last_call'.written
       /\ (current_chat_id # NoId /\ current_chat_id' # current_chat_id) =>
            current_chat_id' = NoId /\ ~SaveStep]_vars

\* a forced save made after the clock moved on returned the id minted earlier
C12_Witness ==
    /\ last_call.op = "save"
    /\ last_call.force
    /\ last_call.attempted
    /\ last_call.ret = current_chat_id
    /\ current_chat_id # NoId
    /\ current_chat_id.ts < now
    /\ last_call.written = HistoryOf(2)

\* C13: a save without a title argument leaves the stored title of an
\* existing record as it was
C13_TitleKeptBySave ==
    [][(/\ SaveStep
        /\ last_call'.title = NoId
        /\ current_chat_id # NoId
        /\ LoadChatHistory(names, data, current_chat_id) # Corrupt
        /\ last_call'.attempted /\ last_call'.ret # NoId) =>
          LoadChatHistory(names', data', current_chat_id).title
            = LoadChatHistory(names, data, current_chat_id).title]_vars

\* C15: whenever the session holds an id, a readable record is stored under it
C15_IdImpliesRecord ==
    current_chat_id # NoId =>
        LoadChatHistory(names, data, current_chat_id) # Corrupt

\* C14: a save of an empty history, forced or not, writes no file, mints no
\* id, changes no session state and returns None
C14_EmptyNeverPersisted ==
    [][(SaveStep /\ ~last_call'.nonempty) =>
         /\ UNCHANGED <<names, data, stateVars>>
         /\ last_call'.ret = NoId
         /\ ~last_call'.attempted]_vars

\* a forced save of an empty history, with a title, in a session without id
C14_Witness ==
    /\ last_call.op = "save"
    /\ ~last_call.nonempty
    /\ last_call.force
    /\ last_call.title # NoId
    /\ current_chat_id = NoId

\* a step that is a call of delete_current_chat
DeleteStep == last_call'.seq # last_call.seq /\ last_call'.op = "delete"

\* C16: delete leaves no record under the id and every other record as it
\* was; when the id has no record, the directory and the result of list are
\* unchanged (so a second delete of the same id changes nothing)
C16_DeleteIdempotent ==
    [][DeleteStep =>
         LET f == FinalName(last_call'.id)
         IN /\ ~Exists(names', f)
            /\ DOMAIN names' = DOMAIN names \ {f}
            /\ \A g \in DOMAIN names' :
                  Content(names', data', g) = Content(names, data, g)
            /\ ~Exists(names, f) =>
                  /\ names' = names
                  /\ data' = data
                  /\ ListEntries(names', data') = ListEntries(names, data)]_vars

\* an id without record was deleted while another record is stored
C16_Witness ==
    /\ last_call.op = "delete"
    /\ ~Exists(names, FinalName(last_call.id))
    /\ ListEntries(names, data) # {}

\* C19: for a message that validate_message rejects, no request is sent and
\* nothing is saved
C19_InvalidMessageRejected ==
    (chatbot # <<>> /\ ~ValidateMessage(chatbot[Len(chatbot)].user)) =>
        /\ turn_obs.requests = 0
        /\ last_call.op # "save"

\* C20: user() leaves the cancellation flag clear, and the flag is set by no
\* step of a turn, only by stop
C20_StopDoesNotLeak ==
    [][/\ (pc = "idle" /\ pc' = "start") => ~is_stopped'
       /\ (~is_stopped /\ is_stopped') =>
            UNCHANGED <<pc, chatbot, history, attempt, nchunks,
                        partial_message>>]_vars

\* the second turn has begun with the flag clear after the first was stopped
C20_Witness ==
    /\ pc = "start"
    /\ Len(chatbot) = 2
    /\ turn_obs.stop_seen
    /\ Assistant(history) = turn_obs.stop_content
    /\ ~is_stopped

\* the values a parameter may take; temperature in tenths, top_p in hundredths
AllowedRange(param_name) ==
    CASE param_name = "temperature" -> 0..20
      [] param_name = "top_p" -> 0..100
      [] param_name = "max_tokens" -> 64..4096

\* C17: update_parameter with a value outside the range of its parameter
\* leaves the parameters in memory and the persisted configuration as they
\* were, and the three parameters are within their ranges in every state
C17_OutOfRangeRejected ==
    [][(cfg_call'.seq # cfg_call.seq /\ cfg_call'.op = "parameter") =>
         /\ cfg_call'.value \notin AllowedRange(cfg_call'.name) =>
               UNCHANGED <<config, config_file>>
         /\ \A n \in ParamNames : config'.parameters[n] \in AllowedRange(n)]_vars

\* a rejected update after an accepted one of the same parameter
C17_Witness ==
    /\ cfg_call.op = "parameter"
    /\ cfg_call.name = "temperature"
    /\ cfg_call.value = 21
    /\ config.parameters.temperature = 20
    /\ config_file = FileOf(config)

\* C18: when no client can be constructed for the new address,
\* update_endpoint leaves the current address in memory and on disk as it
\* was, and the session's client targets that previous address
C18_EndpointRevert ==
    [][(cfg_call'.seq # cfg_call.seq /\ cfg_call'.op = "endpoint"
          /\ ~cfg_call'.built) =>
         /\ config'.current_endpoint = config.current_endpoint
         /\ config_file' = config_file
         /\ client' = config.current_endpoint]_vars

\* a failed switch to e0 while the session is on e1, committed before
C18_Witness ==
    /\ cfg_call.op = "endpoint"
    /\ ~cfg_call.built
    /\ cfg_call.name = "e0"
    /\ config.current_endpoint = "e1"
    /\ client = "e1"
    /\ config_file = FileOf(config)

\* C24: stop() called while no turn is in flight leaves the cancellation flag
\* as it was
C24_StopIdleNoOp ==
    [][(pc \in {"idle", "done"} /\ pc' = pc) =>
          is_stopped' = is_stopped]_vars

\* the endpoint a restart of the program would load
PersistedEndpoint == LoadConfig(config_file).current_endpoint

\* C29: after update_endpoint the client targets the current endpoint held
\* in memory, and the persisted current endpoint equals it
C29_EndpointConsistent ==
    cfg_call.op = "endpoint" =>
        /\ client = config.current_endpoint
        /\ PersistedEndpoint = config.current_endpoint

\* C25: a save whose write fails returns None, leaves no temporary file,
\* leaves every stored record as it was and leaves last_save_time unchanged,
\* so that a following non-forced save is debounced no more than before
C25_FailedWriteLeavesState ==
    [][(SaveStep /\ last_call'.attempted /\ last_call'.ret = NoId) =>
          /\ last_save_time' = last_save_time
          /\ DOMAIN names' = DOMAIN names
          /\ \A f \in DOMAIN names' :
                /\ IsRecordFile(f)
                /\ Content(names', data', f) = Content(names, data, f)
          /\ Debounced(FALSE, current_chat_id', last_save_time', now)
                => Debounced(FALSE, current_chat_id, last_save_time, now)]_vars

\* C22: a turn never makes more than max_retries requests, and every turn
\* that is generating reaches its end
C22_TurnTerminates ==
    /\ [](turn_obs.requests <= MaxRetries)
    /\ Generating ~> TurnEnded

\* a turn that was retried after a failure and then cancelled has ended
C22_Witness ==
    /\ TurnEnded
    /\ turn_obs.stop_seen
    /\ turn_obs.failures >= 1
    /\ turn_obs.requests = turn_obs.failures + 1

\* a call of check_pending_saves
CheckStep == last_call'.seq # last_call.seq /\ last_call'.op = "check"

\* C26: check_pending_saves calls save (forced) exactly when the pending flag
\* is set and at least 5 time units have passed since the last attempt; it
\* then records the attempt time and clears the flag iff the save returned
\* an id; otherwise it changes nothing
C26_PendingRetry ==
    [][CheckStep =>
          IF pending_save /\ now - last_save_attempt >= PendingCooldown
          THEN /\ last_call'.force
               /\ last_save_attempt' = now
               /\ pending_save' = (last_call'.ret = NoId)
          ELSE /\ ~last_call'.force
               /\ ~last_call'.attempted
               /\ UNCHANGED <<stateVars, names, data>>]_vars

\* a retry has stored the history and cleared the flag, after an earlier
\* attempt that had failed
C26_Witness ==
    /\ last_call.op = "check"
    /\ last_call.attempted
    /\ last_call.ret # NoId
    /\ ~pending_save
    /\ last_save_attempt = now
    /\ last_save_time = now
    /\ current_chat_id.ts < now

\* the order of ids: that of their leading timestamps
IdBefore(a, b) == a.ts < b.ts

\* C23: the chat list holds one entry per readable record, newest first, and
\* the entries of equal last-modified time stand in the order of their ids
\* (ascending throughout or descending throughout)
C23_ListOrder ==
    LET tied(i, j) == /\ i < j
                      /\ chat_list[i].last_modified = chat_list[j].last_modified
    IN /\ Len(chat_list) = Cardinality(ListEntries(names, data))
       /\ {chat_list[i] : i \in DOMAIN chat_list} = ListEntries(names, data)
       /\ \A i, j \in DOMAIN chat_list :
             i < j => chat_list[i].last_modified >= chat_list[j].last_modified
       /\ \/ \A i, j \in DOMAIN chat_list :
                tied(i, j) => IdBefore(chat_list[i].chat_id, chat_list[j].chat_id)
          \/ \A i, j \in DOMAIN chat_list :
                tied(i, j) => IdBefore(chat_list[j].chat_id, chat_list[i].chat_id)

\* C28: a save that follows a deletion which removed a record does not bring
\* a record back under the deleted id
C28_DeletionIsFinal ==
    [][(last_call.op = "delete" /\ last_call.attempted /\ SaveStep) =>
          ~Exists(names', FinalName(last_call.id))]_vars

\* C27: a save made by a turn that started in a conversation with an id
\* stores under that id and creates no record under another one
C27_SaveToOwnRecord ==
    [][(SaveStep /\ Generating /\ turn_obs.chat # NoId
           /\ last_call'.attempted /\ last_call'.ret # NoId) =>
          /\ last_call'.ret = turn_obs.chat
          /\ DOMAIN names' \ DOMAIN names \subseteq
                {FinalName(turn_obs.chat)}]_vars

\* C21: stop, reset, new-chat and load of a second conversation leave the
\* cancellation flag, the session id and the last-save time of this
\* conversation as they were
C21_StateNotShared ==
    [][peer'.seq # peer.seq =>
          UNCHANGED <<is_stopped, current_chat_id, last_save_time>>]_vars

\* C10: a save attempt that failed leaves the pending-save flag set
C10_FailedSaveIsPending ==
    (last_call.attempted /\ last_call.ret = NoId) => pending_save

====
